---- MODULE Spec2Model ----
(***************************************************************************)
(* Model of the notification service: the ApiKeyGuard                      *)
(* (guards/api-key.guard.ts), the NotificationController                   *)
(* (controllers/notification.controller.ts), the EmailService              *)
(* (services/email.service.ts) and the TemplateService                     *)
(* (utils/template.service.ts).                                            *)
(*                                                                         *)
(* Six specifications share the module:                                     *)
(*   GuardSpec  one construction of the guard followed by one call of      *)
(*              canActivate on a request drawn from a bounded set of       *)
(*              header values;                                             *)
(*   Spec       MaxReq concurrent HTTP requests travelling through guard,  *)
(*              validation pipe, controller, EmailService and transport;   *)
(*   TemplateSpec  MaxCalls concurrent calls of the TemplateService's      *)
(*              render operations, interleaved at the file reads of        *)
(*              loadTemplates and with clearCache;                         *)
(*   RenderSpec one call of each render / send operation on data drawn     *)
(*              from bounded sets: merge records, subjects, messages;      *)
(*   DataSpec   TemplateSpec's calls with the caller's data drawn from a   *)
(*              set of two records per template, no clearCache;            *)
(*   HungSpec   Spec with weak fairness on every step except the settling  *)
(*              of sendMail for one request, whose send never settles.     *)
(***************************************************************************)
EXTENDS Integers, Sequences, FiniteSets, TLC

VARIABLES
  configValue,     \* what ConfigService.get("NOTIFY_SERVICE_API_KEY") returned
  expectedApiKey,  \* ApiKeyGuard.expectedApiKey (a string, as a sequence of characters)
  guardRequest,    \* the request handed to the last canActivate call (GuardSpec)
  guardOutcome,    \* what that call did: returned, or threw (GuardSpec)
  emailConfig,     \* EmailService.emailConfig.auth (user, pass)
  reqs,            \* the HTTP requests in flight, by request id (Spec)
  templateCache,   \* TemplateService.templateCache, a Map in insertion order (TemplateSpec)
  calls,           \* the calls of the TemplateService's render operations (TemplateSpec)
  history,         \* what happened to the cache since it was last cleared (TemplateSpec)
  renderCall       \* one call of a render / send operation on drawn data (RenderSpec)

vars == <<configValue, expectedApiKey, guardRequest, guardOutcome, emailConfig, reqs,
          templateCache, calls, history, renderCall>>

(***************************************************************************)
(* Bounds.                                                                 *)
(***************************************************************************)
MaxKeyLen == 2     \* longest key / token, in characters, in GuardSpec
MaxReq == 2        \* number of HTTP requests in Spec

(***************************************************************************)
(* JavaScript values.  A string is a sequence of one-character strings.    *)
(***************************************************************************)
Undefined == [kind |-> "undefined"]
Null == [kind |-> "null"]
Str(s) == [kind |-> "string", val |-> s]
Arr(a) == [kind |-> "array", elems |-> a]

\* JavaScript truthiness of undefined / null / a string.
Truthy(v) == v.kind = "string" /\ v.val # <<>>

\* String.prototype.startsWith
startsWith(s, p) == Len(s) >= Len(p) /\ SubSeq(s, 1, Len(p)) = p

\* String.prototype.substring(n)
substring(s, n) == IF n >= Len(s) THEN <<>> ELSE SubSeq(s, n + 1, Len(s))

BearerPrefix == <<"B", "e", "a", "r", "e", "r", " ">>
BearerPrefixLen == 7

(***************************************************************************)
(* The input space of the guard.                                           *)
(***************************************************************************)
KeyChars == {"K", "k"}

RECURSIVE StringsUpTo(_)
StringsUpTo(n) ==
  IF n = 0 THEN {<<>>}
  ELSE LET shorter == StringsUpTo(n - 1)
       IN  shorter \cup {Append(s, c) : s \in {t \in shorter : Len(t) = n - 1}, c \in KeyChars}

OtherKey == <<"o", "t", "h", "e", "r">>

\* What precedes the token in an Authorization header value.
Schemes == { <<>>,
             <<"B", "e", "a", "r", "e", "r">>,
             BearerPrefix,
             <<"b", "e", "a", "r", "e", "r", " ">>,
             <<"B", "a", "s", "i", "c", " ">> }

AuthorizationValues(n) ==
  {Undefined} \cup {Str(sch \o t) : sch \in Schemes, t \in StringsUpTo(n)}

XApiKeyValues(n) ==
  {Undefined}
    \cup {Str(t) : t \in StringsUpTo(n)}
    \cup {Arr(<<t, OtherKey>>) : t \in StringsUpTo(n)}
    \cup {Arr(<<OtherKey, t>>) : t \in StringsUpTo(n)}

ClientIps == {"10.0.0.1", "10.0.0.2"}

Requests(n) ==
  { [headers |-> [authorization |-> a, xApiKey |-> x], ip |-> ip] :
      a \in AuthorizationValues(n), x \in XApiKeyValues(n), ip \in ClientIps }

ConfigValues(n) == {Undefined, Null} \cup {Str(t) : t \in StringsUpTo(n)}

NoRequest == [headers |-> [authorization |-> Undefined, xApiKey |-> Undefined], ip |-> "none"]

(***************************************************************************)
(* ApiKeyGuard                                                             *)
(***************************************************************************)
\* constructor: this.expectedApiKey = configService.get(...) || ""
GuardConstructor(cfg) == IF Truthy(cfg) THEN cfg.val ELSE <<>>

\* Variant of extractApiKey that consults x-api-key before Authorization.
extractApiKey_xApiKeyFirst(request) ==
  LET authHeader == request.headers.authorization
      apiKeyHeader == request.headers.xApiKey
  IN  IF apiKeyHeader.kind = "string"
        THEN apiKeyHeader
      ELSE IF Truthy(authHeader) /\ startsWith(authHeader.val, BearerPrefix)
        THEN Str(substring(authHeader.val, BearerPrefixLen))
      ELSE Null

\* Variant of extractApiKey that takes the first element of an array-valued x-api-key.
extractApiKey_firstOfArray(request) ==
  LET authHeader == request.headers.authorization
      apiKeyHeader == request.headers.xApiKey
  IN  IF Truthy(authHeader) /\ startsWith(authHeader.val, BearerPrefix)
        THEN Str(substring(authHeader.val, BearerPrefixLen))
      ELSE IF apiKeyHeader.kind = "string"
        THEN apiKeyHeader
      ELSE IF apiKeyHeader.kind = "array"
        THEN Str(apiKeyHeader.elems[1])
      ELSE Null

\* extractApiKey: string | null
extractApiKey(request) ==
  LET authHeader == request.headers.authorization
      apiKeyHeader == request.headers.xApiKey
  IN  IF Truthy(authHeader) /\ startsWith(authHeader.val, BearerPrefix)
        THEN Str(substring(authHeader.val, BearerPrefixLen))
      ELSE IF apiKeyHeader.kind = "string"
        THEN apiKeyHeader
      ELSE Null

Returned(v, lg) == [kind |-> "return", value |-> v, exception |-> "none", message |-> "none", log |-> lg]
Thrown(e, m, lg) == [kind |-> "throw", value |-> FALSE, exception |-> e, message |-> m, log |-> lg]
NoOutcome == [kind |-> "none", value |-> FALSE, exception |-> "none", message |-> "none",
              log |-> [level |-> "none", text |-> "none", ip |-> "none"]]

LowerChar(c) == IF c = "K" THEN "k" ELSE c
toLowerCase(s) == [i \in 1..Len(s) |-> LowerChar(s[i])]

\* Variant of canActivate that compares the keys ignoring case.
canActivate_ignoreCase(request, expected) ==
  LET apiKey == extractApiKey(request)
  IN  IF ~Truthy(apiKey) \/ expected = <<>>
        THEN Thrown("UnauthorizedException", "Invalid API key",
                    [level |-> "warn", text |-> "API key missing or not configured", ip |-> "none"])
      ELSE IF toLowerCase(apiKey.val) # toLowerCase(expected)
        THEN Thrown("UnauthorizedException", "Invalid API key",
                    [level |-> "warn", text |-> "Invalid API key attempt from IP", ip |-> request.ip])
      ELSE Returned(TRUE,
                    [level |-> "log", text |-> "Valid API key provided from IP", ip |-> request.ip])

\* Variant of canActivate that rejects only a null candidate and never looks at
\* whether a secret is configured.
canActivate_nullOnly(request, expected) ==
  LET apiKey == extractApiKey(request)
  IN  IF apiKey.kind = "null"
        THEN Thrown("UnauthorizedException", "Invalid API key",
                    [level |-> "warn", text |-> "API key missing or not configured", ip |-> "none"])
      ELSE IF apiKey.val # expected
        THEN Thrown("UnauthorizedException", "Invalid API key",
                    [level |-> "warn", text |-> "Invalid API key attempt from IP", ip |-> request.ip])
      ELSE Returned(TRUE,
                    [level |-> "log", text |-> "Valid API key provided from IP", ip |-> request.ip])

\* Variant of canActivate whose invalid-key warning leaves out the client IP.
canActivate_invalidWithoutIp(request, expected) ==
  LET apiKey == extractApiKey(request)
  IN  IF ~Truthy(apiKey) \/ expected = <<>>
        THEN Thrown("UnauthorizedException", "Invalid API key",
                    [level |-> "warn", text |-> "API key missing or not configured", ip |-> "none"])
      ELSE IF apiKey.val # expected
        THEN Thrown("UnauthorizedException", "Invalid API key",
                    [level |-> "warn", text |-> "Invalid API key attempt from IP", ip |-> "none"])
      ELSE Returned(TRUE,
                    [level |-> "log", text |-> "Valid API key provided from IP", ip |-> request.ip])

\* canActivate: returns true or throws UnauthorizedException
canActivate(request, expected) ==
  LET apiKey == extractApiKey(request)
  IN  IF ~Truthy(apiKey) \/ expected = <<>>
        THEN Thrown("UnauthorizedException", "Invalid API key",
                    [level |-> "warn", text |-> "API key missing or not configured", ip |-> "none"])
      ELSE IF apiKey.val # expected
        THEN Thrown("UnauthorizedException", "Invalid API key",
                    [level |-> "warn", text |-> "Invalid API key attempt from IP", ip |-> request.ip])
      ELSE Returned(TRUE,
                    [level |-> "log", text |-> "Valid API key provided from IP", ip |-> request.ip])


(***************************************************************************)
(* The TemplateService's state where a specification does not use it.      *)
(***************************************************************************)
NoRender == [op |-> "none"]

TemplateServiceUnused ==
  /\ templateCache = <<>>
  /\ calls = <<>>
  /\ history = <<>>
  /\ renderCall = NoRender

templateUnchanged == UNCHANGED <<templateCache, calls, history, renderCall>>

(***************************************************************************)
(* GuardSpec: construct the guard, then call canActivate once.             *)
(***************************************************************************)
NoCredentials == [user |-> <<>>, pass |-> <<>>]

InitGuard ==
  /\ configValue \in ConfigValues(MaxKeyLen)
  /\ expectedApiKey = GuardConstructor(configValue)
  /\ guardRequest = NoRequest
  /\ guardOutcome = NoOutcome
  /\ emailConfig = NoCredentials
  /\ reqs = <<>>
  /\ TemplateServiceUnused

CanActivate ==
  /\ guardOutcome.kind = "none"
  /\ \E request \in Requests(MaxKeyLen) :
       /\ guardRequest' = request
       /\ guardOutcome' = canActivate(request, expectedApiKey)
  /\ UNCHANGED <<configValue, expectedApiKey, emailConfig, reqs>>
  /\ templateUnchanged

NextGuard == CanActivate

GuardSpec == InitGuard /\ [][NextGuard]_vars

(***************************************************************************)
(* The request pipeline (Spec).                                            *)
(***************************************************************************)
ReqIds == 1..MaxReq
Routes == {"welcome-email", "subscription-confirmation", "health"}
SendRoutes == {"welcome-email", "subscription-confirmation"}

\* The requests that arrive in Spec: every header shape, over three tokens.
SampleTokens == {<<>>, <<"K">>, <<"k">>}
PipelineRequests ==
  { [headers |-> [authorization |-> a, xApiKey |-> x], ip |-> "10.0.0.1"] :
      a \in {Undefined} \cup {Str(sch \o t) : sch \in Schemes, t \in SampleTokens},
      x \in {Undefined} \cup {Str(t) : t \in SampleTokens}
              \cup {Arr(<<t, OtherKey>>) : t \in SampleTokens} }

NoBody == [kind |-> "none", statusCode |-> 0, success |-> FALSE, message |-> "none",
           status |-> "none", email_service |-> "none", timestamp |-> "none"]

\* The body Nest's exception filter writes for an HttpException.
ErrorBody(code, msg) == [NoBody EXCEPT !.kind = "error", !.statusCode = code, !.message = msg]

\* NotificationResponseDto
NotificationBody(ok, msg) ==
  [NoBody EXCEPT !.kind = "notification", !.success = ok, !.message = msg, !.timestamp = "now"]

IdleRequest ==
  [ pc |-> "idle",            \* where the request is in the pipeline
    route |-> "none",
    guard |-> "none",         \* "allow" / "reject": what canActivate did for it
    dtoValid |-> FALSE,       \* the ValidationPipe accepted the body
    op |-> "none",            \* the EmailService operation started for it
    testLogged |-> FALSE,     \* logTestEmail / logTestSubscriptionEmail ran
    rendered |-> "none",      \* "ok" / "throw": compiling and applying the templates
    sendMailCalls |-> 0,      \* transporter.sendMail calls made for it
    verifyCalls |-> 0,        \* transporter.verify calls made for it
    transport |-> "none",     \* "resolve" / "reject": how the transport call settled
    svc |-> "none",           \* "true" / "false" / "throw": how the EmailService call ended
    status |-> 0,             \* HTTP status of the response
    body |-> NoBody ]

\* Variant of GuardResult in which a throwing guard does not stop the request.
GuardResult_ignored(q, route, out) ==
  IF out.kind = "return" /\ out.value = TRUE
    THEN [q EXCEPT !.pc = "guarded", !.route = route, !.guard = "allow"]
    ELSE [q EXCEPT !.pc = "guarded", !.route = route, !.guard = "reject"]

\* @UseGuards(ApiKeyGuard) on the controller class: the handler is reached only
\* when canActivate returned true; its UnauthorizedException becomes a 401.
GuardResult(q, route, out) ==
  IF out.kind = "return" /\ out.value = TRUE
    THEN [q EXCEPT !.pc = "guarded", !.route = route, !.guard = "allow"]
    ELSE [q EXCEPT !.pc = "responded", !.route = route, !.guard = "reject",
                   !.status = 401, !.body = ErrorBody(401, out.message)]

\* The ValidationPipe on the @Body() of the two POST routes.
ValidationResult(q, valid) ==
  IF valid
    THEN [q EXCEPT !.pc = "handler", !.dtoValid = TRUE]
    ELSE [q EXCEPT !.pc = "responded", !.status = 400, !.body = ErrorBody(400, "Bad Request")]

(***************************************************************************)
(* EmailService                                                            *)
(***************************************************************************)
\* Variant of the test-mode check that needs both credentials to be empty.
TestMode_bothEmpty(cfg) == cfg.user = <<>> /\ cfg.pass = <<>>

\* if (!this.emailConfig.auth.user || !this.emailConfig.auth.pass)
TestMode(cfg) == cfg.user = <<>> \/ cfg.pass = <<>>

WelcomeCatch_rethrow == "throw"

\* catch (error) { this.logger.error(...); return false; } of sendWelcomeEmail
WelcomeCatch == "false"

\* the catch block of sendSubscriptionConfirmationEmail
SubscriptionCatch == "false"

\* Variant of sendWelcomeEmail whose test-mode branch logs and then goes on to send.
sendWelcomeEmail_noEarlyReturn(q, cfg, render) ==
  LET q1 == [q EXCEPT !.op = "sendWelcomeEmail", !.testLogged = TestMode(cfg)]
  IN  IF render = "throw"
        THEN [q1 EXCEPT !.pc = "svcReturned", !.rendered = "throw", !.svc = WelcomeCatch]
        ELSE [q1 EXCEPT !.pc = "awaitSendMail", !.rendered = "ok", !.sendMailCalls = @ + 1]

\* sendWelcomeEmail up to its await: the test-mode branch, the rendering of the
\* templates (render says whether it throws) and the call of transporter.sendMail.
sendWelcomeEmail(q, cfg, render) ==
  LET q1 == [q EXCEPT !.op = "sendWelcomeEmail"]
  IN  IF TestMode(cfg)
        THEN [q1 EXCEPT !.pc = "svcReturned", !.testLogged = TRUE, !.svc = "true"]
      ELSE IF render = "throw"
        THEN [q1 EXCEPT !.pc = "svcReturned", !.rendered = "throw", !.svc = WelcomeCatch]
      ELSE [q1 EXCEPT !.pc = "awaitSendMail", !.rendered = "ok", !.sendMailCalls = @ + 1]

\* Variant of sendWelcomeEmailResume that calls sendMail a second time after a failure.
sendWelcomeEmailResume_retry(q, outcome) ==
  IF outcome = "resolve"
    THEN [q EXCEPT !.pc = "svcReturned", !.transport = "resolve", !.svc = "true"]
  ELSE IF q.sendMailCalls < 2
    THEN [q EXCEPT !.transport = "reject", !.sendMailCalls = @ + 1]
  ELSE [q EXCEPT !.pc = "svcReturned", !.transport = "reject", !.svc = WelcomeCatch]

\* sendWelcomeEmail after its await: sendMail resolved (return true) or rejected (catch).
sendWelcomeEmailResume(q, outcome) ==
  IF outcome = "resolve"
    THEN [q EXCEPT !.pc = "svcReturned", !.transport = "resolve", !.svc = "true"]
    ELSE [q EXCEPT !.pc = "svcReturned", !.transport = "reject", !.svc = WelcomeCatch]

\* Variant of sendSubscriptionConfirmationEmail that renders its templates before
\* it looks at the credentials.
sendSubscriptionConfirmationEmail_renderFirst(q, cfg, render) ==
  LET q1 == [q EXCEPT !.op = "sendSubscriptionConfirmationEmail", !.rendered = render]
  IN  IF render = "throw"
        THEN [q1 EXCEPT !.pc = "svcReturned", !.svc = SubscriptionCatch]
      ELSE IF TestMode(cfg)
        THEN [q1 EXCEPT !.pc = "svcReturned", !.testLogged = TRUE, !.svc = "true"]
      ELSE [q1 EXCEPT !.pc = "awaitSendMail", !.sendMailCalls = @ + 1]

\* sendSubscriptionConfirmationEmail up to its await.
sendSubscriptionConfirmationEmail(q, cfg, render) ==
  LET q1 == [q EXCEPT !.op = "sendSubscriptionConfirmationEmail"]
  IN  IF TestMode(cfg)
        THEN [q1 EXCEPT !.pc = "svcReturned", !.testLogged = TRUE, !.svc = "true"]
      ELSE IF render = "throw"
        THEN [q1 EXCEPT !.pc = "svcReturned", !.rendered = "throw", !.svc = SubscriptionCatch]
      ELSE [q1 EXCEPT !.pc = "awaitSendMail", !.rendered = "ok", !.sendMailCalls = @ + 1]

\* sendSubscriptionConfirmationEmail after its await.
sendSubscriptionConfirmationEmailResume(q, outcome) ==
  IF outcome = "resolve"
    THEN [q EXCEPT !.pc = "svcReturned", !.transport = "resolve", !.svc = "true"]
    ELSE [q EXCEPT !.pc = "svcReturned", !.transport = "reject", !.svc = SubscriptionCatch]

\* Variant of verifyConnection that reports success without probing the transport.
verifyConnection_skipsProbe(q) ==
  [q EXCEPT !.op = "verifyConnection", !.pc = "svcReturned", !.svc = "true"]

\* verifyConnection up to its await: the call of transporter.verify.
verifyConnection(q) ==
  [q EXCEPT !.op = "verifyConnection", !.pc = "awaitVerify", !.verifyCalls = @ + 1]

\* verifyConnection after its await.
verifyConnectionResume(q, outcome) ==
  IF outcome = "resolve"
    THEN [q EXCEPT !.pc = "svcReturned", !.transport = "resolve", !.svc = "true"]
    ELSE [q EXCEPT !.pc = "svcReturned", !.transport = "reject", !.svc = "false"]

(***************************************************************************)
(* NotificationController: the response built from the service's result.   *)
(***************************************************************************)
\* Variant of WelcomeResponse that answers a failed send with an error status.
WelcomeResponse_errorStatus(q) ==
  IF q.svc = "true"
    THEN [q EXCEPT !.pc = "responded", !.status = 200,
                   !.body = NotificationBody(TRUE, "Welcome email sent successfully")]
    ELSE [q EXCEPT !.pc = "responded", !.status = 500,
                   !.body = ErrorBody(500, "Internal server error")]

\* sendWelcomeEmail of the controller, after the await.
WelcomeResponse(q) ==
  IF q.svc = "true"
    THEN [q EXCEPT !.pc = "responded", !.status = 200,
                   !.body = NotificationBody(TRUE, "Welcome email sent successfully")]
  ELSE IF q.svc = "false"
    THEN [q EXCEPT !.pc = "responded", !.status = 200,
                   !.body = NotificationBody(FALSE, "Failed to send welcome email")]
  ELSE [q EXCEPT !.pc = "responded", !.status = 200,
                 !.body = NotificationBody(FALSE, "Error: <message>")]

\* sendSubscriptionConfirmationEmail of the controller, after the await.
SubscriptionResponse(q) ==
  IF q.svc = "true"
    THEN [q EXCEPT !.pc = "responded", !.status = 200,
                   !.body = NotificationBody(TRUE, "Subscription confirmation email sent successfully")]
  ELSE IF q.svc = "false"
    THEN [q EXCEPT !.pc = "responded", !.status = 200,
                   !.body = NotificationBody(FALSE, "Failed to send subscription confirmation email")]
  ELSE [q EXCEPT !.pc = "responded", !.status = 200,
                 !.body = NotificationBody(FALSE, "Error: <message>")]


\* Variant of HealthResponse whose status field does not follow the probe.
HealthResponse_statusAlwaysHealthy(q) ==
  [q EXCEPT !.pc = "responded", !.status = 200,
            !.body = [NoBody EXCEPT
                        !.kind = "health",
                        !.status = "healthy",
                        !.email_service = IF q.svc = "true" THEN "connected" ELSE "disconnected",
                        !.timestamp = "now"]]

\* healthCheck of the controller, after the await (it has no try/catch).
HealthResponse(q) ==
  IF q.svc = "throw"
    THEN [q EXCEPT !.pc = "responded", !.status = 500,
                   !.body = ErrorBody(500, "Internal server error")]
    ELSE [q EXCEPT !.pc = "responded", !.status = 200,
                   !.body = [NoBody EXCEPT
                               !.kind = "health",
                               !.status = IF q.svc = "true" THEN "healthy" ELSE "degraded",
                               !.email_service = IF q.svc = "true" THEN "connected" ELSE "disconnected",
                               !.timestamp = "now"]]

(***************************************************************************)
(* Spec: MaxReq requests, each taking the steps of the pipeline.            *)
(***************************************************************************)
RenderOutcomes == {"ok", "throw"}
TransportOutcomes == {"resolve", "reject"}

Init ==
  /\ configValue \in {Undefined, Str(<<>>), Str(<<"K">>)}
  /\ expectedApiKey = GuardConstructor(configValue)
  /\ guardRequest = NoRequest
  /\ guardOutcome = NoOutcome
  /\ emailConfig \in [user : {<<>>, <<"u">>}, pass : {<<>>, <<"p">>}]
  /\ reqs = [r \in ReqIds |-> IdleRequest]
  /\ TemplateServiceUnused

guardUnchanged ==
  /\ UNCHANGED <<configValue, expectedApiKey, guardRequest, guardOutcome, emailConfig>>
  /\ templateUnchanged

\* A request arrives on a /notifications route and the guard runs on it.
Guard(r) ==
  /\ reqs[r].pc = "idle"
  /\ \E route \in Routes, request \in PipelineRequests :
       reqs' = [reqs EXCEPT ![r] = GuardResult(@, route, canActivate(request, expectedApiKey))]
  /\ guardUnchanged

\* The body of a POST request is validated against its DTO.
ValidationPipe(r) ==
  /\ reqs[r].pc = "guarded"
  /\ reqs[r].route \in SendRoutes
  /\ \E valid \in BOOLEAN : reqs' = [reqs EXCEPT ![r] = ValidationResult(@, valid)]
  /\ guardUnchanged

SendWelcomeEmail(r) ==
  /\ reqs[r].pc = "handler"
  /\ reqs[r].route = "welcome-email"
  /\ \E render \in RenderOutcomes :
       reqs' = [reqs EXCEPT ![r] = sendWelcomeEmail(@, emailConfig, render)]
  /\ guardUnchanged

WelcomeSendMailSettles(r) ==
  /\ reqs[r].pc = "awaitSendMail"
  /\ reqs[r].op = "sendWelcomeEmail"
  /\ \E outcome \in TransportOutcomes :
       reqs' = [reqs EXCEPT ![r] = sendWelcomeEmailResume(@, outcome)]
  /\ guardUnchanged

SendSubscriptionConfirmationEmail(r) ==
  /\ reqs[r].pc = "handler"
  /\ reqs[r].route = "subscription-confirmation"
  /\ \E render \in RenderOutcomes :
       reqs' = [reqs EXCEPT ![r] = sendSubscriptionConfirmationEmail(@, emailConfig, render)]
  /\ guardUnchanged

SubscriptionSendMailSettles(r) ==
  /\ reqs[r].pc = "awaitSendMail"
  /\ reqs[r].op = "sendSubscriptionConfirmationEmail"
  /\ \E outcome \in TransportOutcomes :
       reqs' = [reqs EXCEPT ![r] = sendSubscriptionConfirmationEmailResume(@, outcome)]
  /\ guardUnchanged

HealthCheck(r) ==
  /\ reqs[r].pc = "guarded"
  /\ reqs[r].route = "health"
  /\ reqs' = [reqs EXCEPT ![r] = verifyConnection(@)]
  /\ guardUnchanged

\* Variant of VerifySettles in which the transport answers a probe only when no
\* sendMail call is outstanding.
VerifySettles_afterSends(r) ==
  /\ reqs[r].pc = "awaitVerify"
  /\ \A other \in ReqIds : reqs[other].pc # "awaitSendMail"
  /\ \E outcome \in TransportOutcomes :
       reqs' = [reqs EXCEPT ![r] = verifyConnectionResume(@, outcome)]
  /\ guardUnchanged

VerifySettles(r) ==
  /\ reqs[r].pc = "awaitVerify"
  /\ \E outcome \in TransportOutcomes :
       reqs' = [reqs EXCEPT ![r] = verifyConnectionResume(@, outcome)]
  /\ guardUnchanged

Respond(r) ==
  /\ reqs[r].pc = "svcReturned"
  /\ reqs' = [reqs EXCEPT ![r] =
                IF @.route = "welcome-email" THEN WelcomeResponse(@)
                ELSE IF @.route = "subscription-confirmation" THEN SubscriptionResponse(@)
                ELSE HealthResponse(@)]
  /\ guardUnchanged

Next ==
  \E r \in ReqIds :
    \/ Guard(r)
    \/ ValidationPipe(r)
    \/ SendWelcomeEmail(r)
    \/ WelcomeSendMailSettles(r)
    \/ SendSubscriptionConfirmationEmail(r)
    \/ SubscriptionSendMailSettles(r)
    \/ HealthCheck(r)
    \/ VerifySettles(r)
    \/ Respond(r)

Spec == Init /\ [][Next]_vars

(***************************************************************************)
(* Properties of the guard (GuardSpec).                                    *)
(***************************************************************************)
KeyK == <<"K">>
Keyk == <<"k">>
BearerK == Str(BearerPrefix \o KeyK)
Bearerk == Str(BearerPrefix \o Keyk)

GuardCalled == guardOutcome.kind # "none"
GuardAllowed == guardOutcome.kind = "return" /\ guardOutcome.value = TRUE
GuardRejected ==
  /\ guardOutcome.kind = "throw"
  /\ guardOutcome.exception = "UnauthorizedException"
  /\ guardOutcome.message = "Invalid API key"

\* An Authorization header of the form "Bearer " followed by a non-empty token.
WellFormedAuthorization(request) ==
  LET a == request.headers.authorization
  IN  /\ a.kind = "string"
      /\ startsWith(a.val, BearerPrefix)
      /\ Len(a.val) > BearerPrefixLen
BearerToken(request) == substring(request.headers.authorization.val, BearerPrefixLen)

\* C1: canActivate returns true exactly when the configured secret is non-empty
\* and the candidate extracted from the headers is a non-empty string equal to
\* the secret, character for character (Bearer K alone and x-api-key K alone are
\* authorized under secret K, k is not); in every other case it throws
\* UnauthorizedException("Invalid API key"), and it never returns false.
C1_AllowIffExactMatch ==
  GuardCalled =>
    LET cand == extractApiKey(guardRequest)
        match == /\ expectedApiKey # <<>>
                 /\ cand.kind = "string"
                 /\ cand.val # <<>>
                 /\ cand.val = expectedApiKey
        h == guardRequest.headers
    IN  /\ GuardAllowed <=> match
        /\ ~match => GuardRejected
        /\ ~(guardOutcome.kind = "return" /\ guardOutcome.value = FALSE)
        /\ expectedApiKey = KeyK /\ h.authorization = BearerK /\ h.xApiKey = Undefined
             => GuardAllowed
        /\ expectedApiKey = KeyK /\ h.authorization = Undefined /\ h.xApiKey = Str(KeyK)
             => GuardAllowed
        /\ expectedApiKey = KeyK /\ h.authorization = Bearerk /\ h.xApiKey = Undefined
             => GuardRejected
        /\ expectedApiKey = KeyK /\ h.authorization = Undefined /\ h.xApiKey = Str(Keyk)
             => GuardRejected

C1_Witness ==
  /\ expectedApiKey = KeyK
  /\ guardRequest.headers.authorization = Undefined
  /\ guardRequest.headers.xApiKey = Str(Keyk)
  /\ GuardRejected

\* C2: fail-closed.  A configuration value of null, undefined or "" is stored as
\* the empty secret, and under the empty secret every call of canActivate
\* throws UnauthorizedException whatever the headers hold, an empty-string
\* candidate included.
C2_FailClosed ==
  /\ configValue \in {Undefined, Null, Str(<<>>)} => expectedApiKey = <<>>
  /\ GuardCalled /\ expectedApiKey = <<>> => GuardRejected

C2_Witness ==
  /\ configValue = Null
  /\ expectedApiKey = <<>>
  /\ guardRequest.headers.authorization = Undefined
  /\ guardRequest.headers.xApiKey = Str(<<>>)
  /\ GuardRejected

\* C3: when the Authorization header is "Bearer " followed by a token, that
\* token alone decides: the call is allowed exactly when the token equals the
\* secret, whatever x-api-key holds (a matching token wins over a different
\* x-api-key, a non-matching token loses even when x-api-key is the secret).
C3_BearerTokenDecides ==
  GuardCalled /\ WellFormedAuthorization(guardRequest) =>
    /\ GuardAllowed <=> BearerToken(guardRequest) = expectedApiKey
    /\ ~GuardAllowed => GuardRejected

C3_Witness ==
  /\ expectedApiKey = KeyK
  /\ guardRequest.headers.authorization = Bearerk
  /\ guardRequest.headers.xApiKey = Str(KeyK)
  /\ GuardRejected

\* C4: for every request whose Authorization header is present but malformed
\* (no token after the Bearer scheme, or a scheme other than Bearer), the guard
\* falls through to x-api-key: the call is allowed whenever x-api-key is a
\* single string equal to the configured (non-empty) secret.
C4_MalformedFallsThrough ==
  LET h == guardRequest.headers
  IN  ( /\ GuardCalled
        /\ h.authorization.kind = "string"
        /\ ~WellFormedAuthorization(guardRequest)
        /\ expectedApiKey # <<>>
        /\ h.xApiKey.kind = "string"
        /\ h.xApiKey.val = expectedApiKey )
      => GuardAllowed

\* C5: an array-valued x-api-key counts as absent: without a well-formed
\* Authorization header the call is rejected, even when an element of the array
\* is the secret.
C5_ArrayIsAbsent ==
  ( /\ GuardCalled
    /\ guardRequest.headers.xApiKey.kind = "array"
    /\ ~WellFormedAuthorization(guardRequest) )
  => GuardRejected

C5_Witness ==
  /\ expectedApiKey = KeyK
  /\ guardRequest.headers.authorization = Undefined
  /\ guardRequest.headers.xApiKey = Arr(<<KeyK, OtherKey>>)
  /\ GuardRejected

(***************************************************************************)
(* Properties of the request pipeline (Spec).                              *)
(***************************************************************************)
SendOps == {"sendWelcomeEmail", "sendSubscriptionConfirmationEmail"}
DispatcherStarted(q) ==
  q.op # "none" \/ q.sendMailCalls > 0 \/ q.verifyCalls > 0 \/ q.testLogged \/ q.svc # "none"

\* C6: on every /notifications route no EmailService operation and no transport
\* call is started for a request unless the guard returned success for that
\* same request; a request the guard rejects is answered 401 and starts none.
C6_GuardBeforeDispatcher ==
  \A r \in ReqIds :
    LET q == reqs[r]
    IN  /\ DispatcherStarted(q) => q.guard = "allow"
        /\ q.pc \notin {"idle", "responded"} => q.guard = "allow"
        /\ q.guard = "reject" =>
             /\ q.pc = "responded"
             /\ q.status = 401
             /\ q.body.kind = "error"
             /\ ~DispatcherStarted(q)

C6_Witness ==
  \E r1, r2 \in ReqIds :
    /\ reqs[r1].guard = "reject" /\ reqs[r1].status = 401
    /\ reqs[r2].guard = "allow" /\ reqs[r2].sendMailCalls = 1

\* C7: sendWelcomeEmail and sendSubscriptionConfirmationEmail end with a boolean
\* and never with an exception: a failure of the rendering or of the transport
\* send is turned into false, and true is returned only in test mode or after
\* the transport send completed without error.
C7_SendNeverThrows ==
  \A r \in ReqIds :
    LET q == reqs[r]
    IN  q.op \in SendOps =>
          /\ q.svc \in {"none", "true", "false"}
          /\ q.pc \in {"svcReturned", "responded"} => q.svc \in {"true", "false"}
          /\ q.rendered = "throw" => q.svc = "false"
          /\ q.transport = "reject" => q.svc = "false"
          /\ q.svc = "true" =>
               \/ TestMode(emailConfig) /\ q.sendMailCalls = 0
               \/ q.sendMailCalls = 1 /\ q.transport = "resolve"

C7_Witness ==
  \E r1, r2 \in ReqIds :
    /\ reqs[r1].op = "sendWelcomeEmail"
    /\ reqs[r1].rendered = "throw" /\ reqs[r1].svc = "false"
    /\ reqs[r2].op = "sendSubscriptionConfirmationEmail"
    /\ reqs[r2].transport = "reject" /\ reqs[r2].svc = "false"

\* C8: test mode.  With empty SMTP credentials every call of the two send
\* operations logs the would-be email and returns true, and transporter.sendMail
\* is never called.
C8_TestModeNeverSends ==
  (emailConfig.user = <<>> /\ emailConfig.pass = <<>>) =>
    \A r \in ReqIds :
      LET q == reqs[r]
      IN  /\ q.sendMailCalls = 0
          /\ q.op \in SendOps => q.testLogged /\ q.svc = "true" /\ q.rendered = "none"

C8_Witness ==
  /\ emailConfig.user = <<>> /\ emailConfig.pass = <<>>
  /\ \E r1, r2 \in ReqIds :
       /\ reqs[r1].op = "sendWelcomeEmail" /\ reqs[r1].svc = "true"
       /\ reqs[r2].op = "sendSubscriptionConfirmationEmail" /\ reqs[r2].svc = "true"

\* C9: no retry.  A call of a send operation calls transporter.sendMail at most
\* once; a rejected send makes the call return false after that single attempt,
\* and once the call has returned no further sendMail happens for the request.
C9_NoRetry ==
  /\ [](\A r \in ReqIds :
          /\ reqs[r].sendMailCalls <= 1
          /\ reqs[r].transport = "reject" /\ reqs[r].op \in SendOps =>
               reqs[r].svc = "false" /\ reqs[r].sendMailCalls = 1)
  /\ [][\A r \in ReqIds :
          reqs[r].svc # "none" => reqs'[r].sendMailCalls = reqs[r].sendMailCalls]_vars

C9_Witness ==
  \E r \in ReqIds :
    /\ reqs[r].op = "sendWelcomeEmail"
    /\ reqs[r].transport = "reject"
    /\ reqs[r].pc = "responded"
    /\ reqs[r].sendMailCalls = 1

\* C10: an authorized request to a send endpoint whose body passed validation
\* is answered 200 with {success, message, timestamp}, success being the boolean
\* the EmailService returned; a render or transport failure is never an error
\* status.
C10_Always200 ==
  \A r \in ReqIds :
    LET q == reqs[r]
    IN  ( /\ q.pc = "responded"
          /\ q.guard = "allow"
          /\ q.route \in SendRoutes
          /\ q.dtoValid )
        => /\ q.status = 200
           /\ q.body.kind = "notification"
           /\ q.body.success = (q.svc = "true")
           /\ q.svc \in {"true", "false"}
           /\ q.body.message # "none"
           /\ q.body.timestamp = "now"

C10_Witness ==
  \E r1, r2 \in ReqIds :
    /\ reqs[r1].pc = "responded" /\ reqs[r1].route = "welcome-email"
    /\ reqs[r1].transport = "reject"
    /\ reqs[r1].status = 200 /\ reqs[r1].body.success = FALSE
    /\ reqs[r2].pc = "responded" /\ reqs[r2].route = "subscription-confirmation"
    /\ reqs[r2].transport = "resolve"
    /\ reqs[r2].status = 200 /\ reqs[r2].body.success = TRUE

\* C11: the health endpoint never fails on a transport problem.  verifyConnection
\* returns true exactly when transporter.verify resolved and false when it
\* rejected, never throwing; the response is 200 with status "healthy" and
\* email_service "connected" exactly when it returned true, and "degraded" with
\* "disconnected" otherwise, the two fields never mixed.
C11_HealthFollowsProbe ==
  \A r \in ReqIds :
    LET q == reqs[r]
    IN  q.op = "verifyConnection" =>
          /\ q.svc \in {"none", "true", "false"}
          /\ q.svc = "true" <=> q.transport = "resolve"
          /\ q.svc = "false" <=> q.transport = "reject"
          /\ q.pc = "responded" =>
               /\ q.status = 200
               /\ q.body.kind = "health"
               /\ q.svc = "true" =>
                    q.body.status = "healthy" /\ q.body.email_service = "connected"
               /\ q.svc # "true" =>
                    q.body.status = "degraded" /\ q.body.email_service = "disconnected"

C11_Witness ==
  \E r1, r2 \in ReqIds :
    /\ reqs[r1].op = "verifyConnection" /\ reqs[r1].transport = "reject"
    /\ reqs[r1].pc = "responded" /\ reqs[r1].body.status = "degraded"
    /\ reqs[r2].op = "verifyConnection" /\ reqs[r2].transport = "resolve"
    /\ reqs[r2].pc = "responded" /\ reqs[r2].body.status = "healthy"

(***************************************************************************)
(* Render data.  Required string fields are strings; an optional field is  *)
(* Undefined or a tagged value (Str, Num, DateOf).                         *)
(***************************************************************************)
Num(n) == [kind |-> "number", val |-> n]
DateOf(d) == [kind |-> "date", val |-> d]
Bool(b) == [kind |-> "boolean", val |-> b]
Inherited(p) == [kind |-> "object", val |-> "Object.prototype." \o p]

\* JavaScript truthiness of an optional field: "" and 0 are falsy, a Date and an
\* object are truthy.
TruthyValue(v) ==
  CASE v.kind = "string" -> v.val # ""
    [] v.kind = "number" -> v.val # 0
    [] v.kind = "boolean" -> v.val
    [] v.kind = "date" -> TRUE
    [] v.kind = "object" -> TRUE
    [] OTHER -> FALSE

\* a || b
OrElse(a, b) == IF TruthyValue(a) THEN a ELSE b

DigitChars == <<"0", "1", "2", "3", "4", "5", "6", "7", "8", "9">>
Digit(d) == DigitChars[d + 1]

RECURSIVE NatToString(_)
NatToString(n) == IF n < 10 THEN Digit(n) ELSE NatToString(n \div 10) \o Digit(n % 10)

\* What a template prints for a value: null and undefined print nothing.
Shown(v) ==
  CASE v.kind = "string" -> v.val
    [] v.kind = "number" -> NatToString(v.val)
    [] v.kind = "boolean" -> IF v.val THEN "true" ELSE "false"
    [] v.kind = "object" -> "[" \o v.val \o "]"
    [] OTHER -> ""

\* The own properties of the `providers` object literal.
providers ==
  [google |-> "Google", facebook |-> "Facebook", apple |-> "Apple", github |-> "GitHub"]

\* Properties an object literal inherits from Object.prototype.
ObjectPrototypeProperties ==
  {"constructor", "toString", "valueOf", "hasOwnProperty", "__proto__"}

\* providers[provider]: own property, inherited property, or undefined
providersLookup(provider) ==
  IF provider \in DOMAIN providers THEN Str(providers[provider])
  ELSE IF provider \in ObjectPrototypeProperties THEN Inherited(provider)
  ELSE Undefined

\* TemplateService.getProviderDisplayName: providers[provider] || provider
getProviderDisplayName(provider) == OrElse(providersLookup(provider), Str(provider))

\* EmailService.getProviderDisplayName: providers[provider] || provider
EmailService_getProviderDisplayName(provider) == OrElse(providersLookup(provider), Str(provider))

\* (amount / 100).toFixed(2) for an integer amount
amountToFixed(amount) ==
  LET a == IF amount < 0 THEN 0 - amount ELSE amount
  IN  (IF amount < 0 THEN "-" ELSE "")
        \o NatToString(a \div 100) \o "." \o Digit((a % 100) \div 10) \o Digit(a % 10)

\* String.prototype.toUpperCase on the currency codes of the input space
UpperCaseOf == [eur |-> "EUR", usd |-> "USD", EUR |-> "EUR", Usd |-> "USD"]
toUpperCase(s) == IF s \in DOMAIN UpperCaseOf THEN UpperCaseOf[s] ELSE s

\* Date.prototype.toLocaleDateString("fr-FR") on the dates of the input space
FrenchDateOf == [d20240215 |-> "15/02/2024", d20240315 |-> "15/03/2024"]
toLocaleDateString(d) == FrenchDateOf[d]

\* emailConfig.templates.baseUrl, emailConfig.from and new Date().getFullYear()
BaseUrl == "http://localhost:3000"
FromName == "Penpal AI"
FromAddress == "noreply@penpal-ai.com"
CurrentYear == 2026

WelcomeSubject == "Bienvenue dans Penpal AI !"
TrialSubject == "Votre periode d'essai Penpal AI a commence !"
ConfirmationSubject == "Confirmation de votre abonnement Penpal AI"

(***************************************************************************)
(* Templates.  A template is a sequence of parts: literal text, a          *)
(* {{field}} placeholder, or an {{#if field}} ... {{else}} ... {{/if}}     *)
(* block.  A compiled template applied to a merge record yields a string.  *)
(***************************************************************************)
Lit(s) == [part |-> "lit", text |-> s]
Var(f) == [part |-> "var", field |-> f]
IfElse(f, a, b) == [part |-> "if", field |-> f, then |-> a, else |-> b]

\* Looking up a field the merge record does not have yields undefined.
Field(data, f) == IF f \in DOMAIN data THEN data[f] ELSE Undefined

RECURSIVE Apply(_, _)
Apply(parts, data) ==
  IF Len(parts) = 0 THEN ""
  ELSE LET p == Head(parts)
           piece ==
             CASE p.part = "lit" -> p.text
               [] p.part = "var" -> Shown(Field(data, p.field))
               [] p.part = "if" ->
                    Apply(IF TruthyValue(Field(data, p.field)) THEN p.then ELSE p.else, data)
       IN  piece \o Apply(Tail(parts), data)

\* The inline templates of EmailService, reduced to their placeholders and
\* blocks with one literal standing for each run of fixed text.
WelcomeHtml ==
  <<Lit("<h1>Bienvenue "), Var("fullName"), Lit("</h1><p>via "), Var("provider"),
    Lit("</p><a href="), Var("baseUrl"), Lit("/onboarding>(c) "), Var("year"),
    Lit(" envoye a "), Var("email")>>
\* Variant of the welcome text template that is a lone placeholder.
WelcomeText_onlyPlaceholder == <<Var("email")>>

WelcomeText ==
  <<Lit("Bienvenue dans Penpal AI, "), Var("fullName"), Lit(" via "), Var("provider"),
    Lit(" "), Var("baseUrl"), Lit("/dashboard (c) "), Var("year"),
    Lit(" envoye a "), Var("email")>>
SubscriptionHtml ==
  <<IfElse("isTrialActive", <<Lit("<h1>Essai</h1>")>>, <<Lit("<h1>Abonnement</h1>")>>),
    Lit("<p>Bonjour "), Var("fullName"), Lit("</p>"),
    IfElse("isTrialActive",
      <<Lit("Essai "), Var("plan"),
        IfElse("trialEnd", <<Lit(" Fin de l'essai : "), Var("trialEnd")>>, <<>>)>>,
      <<Lit("Plan "), Var("plan"),
        IfElse("amount", <<Lit(" Montant : "), Var("amount"), Lit(" "), Var("currency")>>, <<>>),
        IfElse("nextBillingDate",
               <<Lit(" Prochaine facturation : "), Var("nextBillingDate")>>, <<>>)>>),
    Lit("<a href="), Var("baseUrl"), Lit(">(c) "), Var("year")>>
SubscriptionText ==
  <<Lit("Penpal AI - "),
    IfElse("isTrialActive", <<Lit("Periode d'essai commencee")>>, <<Lit("Abonnement confirme")>>),
    Lit(" Bonjour "), Var("fullName"), Lit(", "),
    IfElse("isTrialActive",
      <<Lit("- Plan : Essai "), Var("plan"),
        IfElse("trialEnd", <<Lit(" - Fin de l'essai : "), Var("trialEnd")>>, <<>>)>>,
      <<Lit("- Plan : "), Var("plan"),
        IfElse("amount", <<Lit(" - Montant : "), Var("amount"), Lit(" "), Var("currency")>>, <<>>),
        IfElse("nextBillingDate",
               <<Lit(" - Prochaine facturation : "), Var("nextBillingDate")>>, <<>>)>>),
    Lit(" Acceder a Penpal AI : "), Var("baseUrl"), Lit(" (c) "), Var("year")>>

(***************************************************************************)
(* TemplateService render operations, given the compiled pair that         *)
(* loadTemplates returned.                                                 *)
(***************************************************************************)
\* templateData of getWelcomeEmailTemplate
WelcomeTemplateData(userData) ==
  [firstName |-> Str(userData.firstName),
   lastName |-> Str(userData.lastName),
   fullName |-> Str(userData.firstName \o " " \o userData.lastName),
   provider |-> getProviderDisplayName(userData.provider),
   email |-> Str(userData.email),
   baseUrl |-> Str(BaseUrl),
   year |-> Num(CurrentYear)]

getWelcomeEmailTemplate(templates, userData) ==
  LET templateData == WelcomeTemplateData(userData)
  IN  [html |-> Apply(templates.html, templateData),
       text |-> Apply(templates.text, templateData),
       subject |-> WelcomeSubject]

\* subscriptionData.amount ? (subscriptionData.amount / 100).toFixed(2) : null
AmountField(amount) == IF TruthyValue(amount) THEN Str(amountToFixed(amount.val)) ELSE Null

\* d ? d.toLocaleDateString("fr-FR") : null
DateField(d) == IF TruthyValue(d) THEN Str(toLocaleDateString(d.val)) ELSE Null

\* Variant of the currency field that keeps the supplied spelling.
CurrencyField_asSupplied(currency) ==
  OrElse(IF currency.kind = "string" THEN Str(currency.val) ELSE Undefined, Str("EUR"))

\* subscriptionData.currency?.toUpperCase() || "EUR"
CurrencyField(currency) ==
  OrElse(IF currency.kind = "string" THEN Str(toUpperCase(currency.val)) ELSE Undefined,
         Str("EUR"))

\* templateData of getSubscriptionConfirmationEmailTemplate
SubscriptionTemplateData(subscriptionData) ==
  [firstName |-> Str(subscriptionData.firstName),
   lastName |-> Str(subscriptionData.lastName),
   fullName |-> Str(subscriptionData.firstName \o " " \o subscriptionData.lastName),
   plan |-> Str(IF subscriptionData.plan = "monthly" THEN "Mensuel" ELSE "Annuel"),
   planType |-> Str(subscriptionData.plan),
   status |-> Str(subscriptionData.status),
   isTrialActive |-> Bool(subscriptionData.status = "trial"),
   trialEnd |-> DateField(subscriptionData.trialEnd),
   nextBillingDate |-> DateField(subscriptionData.nextBillingDate),
   amount |-> AmountField(subscriptionData.amount),
   currency |-> CurrencyField(subscriptionData.currency),
   baseUrl |-> Str(BaseUrl),
   year |-> Num(CurrentYear)]

\* Variant of the subject choice that branches on the plan.
SubscriptionSubject_byPlan(subscriptionData) ==
  IF subscriptionData.plan = "monthly" THEN TrialSubject ELSE ConfirmationSubject

\* const subject = subscriptionData.status === "trial" ? ... : ...
SubscriptionSubject(subscriptionData) ==
  IF subscriptionData.status = "trial" THEN TrialSubject ELSE ConfirmationSubject

getSubscriptionConfirmationEmailTemplate(templates, subscriptionData) ==
  LET templateData == SubscriptionTemplateData(subscriptionData)
  IN  [html |-> Apply(templates.html, templateData),
       text |-> Apply(templates.text, templateData),
       subject |-> SubscriptionSubject(subscriptionData)]

(***************************************************************************)
(* EmailService: the message each send operation builds from its inline    *)
(* templates before handing it to transporter.sendMail.                    *)
(***************************************************************************)
\* templateData of sendWelcomeEmail
EmailService_WelcomeTemplateData(userData) ==
  [firstName |-> Str(userData.firstName),
   lastName |-> Str(userData.lastName),
   fullName |-> Str(userData.firstName \o " " \o userData.lastName),
   provider |-> EmailService_getProviderDisplayName(userData.provider),
   baseUrl |-> Str(BaseUrl),
   year |-> Num(CurrentYear)]

\* mailOptions of sendWelcomeEmail
WelcomeMailOptions(userData) ==
  LET templateData == EmailService_WelcomeTemplateData(userData)
  IN  [from |-> [name |-> FromName, address |-> FromAddress],
       to |-> userData.email,
       subject |-> WelcomeSubject,
       text |-> Apply(WelcomeText, templateData),
       html |-> Apply(WelcomeHtml, templateData)]

\* templateData of sendSubscriptionConfirmationEmail
EmailService_SubscriptionTemplateData(subscriptionData) ==
  [firstName |-> Str(subscriptionData.firstName),
   lastName |-> Str(subscriptionData.lastName),
   fullName |-> Str(subscriptionData.firstName \o " " \o subscriptionData.lastName),
   plan |-> Str(IF subscriptionData.plan = "monthly" THEN "Mensuel" ELSE "Annuel"),
   planType |-> Str(subscriptionData.plan),
   status |-> Str(subscriptionData.status),
   isTrialActive |-> Bool(subscriptionData.status = "trial"),
   trialEnd |-> DateField(subscriptionData.trialEnd),
   nextBillingDate |-> DateField(subscriptionData.nextBillingDate),
   amount |-> AmountField(subscriptionData.amount),
   currency |-> CurrencyField(subscriptionData.currency),
   baseUrl |-> Str(BaseUrl),
   year |-> Num(CurrentYear)]

\* const subject = ... of sendSubscriptionConfirmationEmail
EmailService_SubscriptionSubject(subscriptionData) ==
  IF subscriptionData.status = "trial" THEN TrialSubject ELSE ConfirmationSubject

\* mailOptions of sendSubscriptionConfirmationEmail
SubscriptionMailOptions(subscriptionData) ==
  LET templateData == EmailService_SubscriptionTemplateData(subscriptionData)
  IN  [from |-> [name |-> FromName, address |-> FromAddress],
       to |-> subscriptionData.email,
       subject |-> EmailService_SubscriptionSubject(subscriptionData),
       text |-> Apply(SubscriptionText, templateData),
       html |-> Apply(SubscriptionHtml, templateData)]

(***************************************************************************)
(* RenderSpec: one render or send operation on inputs drawn from the sets   *)
(* below; renderCall records the operation and its result.                 *)
(***************************************************************************)
Providers ==
  {"google", "facebook", "apple", "github", "microsoft", "Google", "", "constructor", "toString"}
Amounts == {Undefined} \cup {Num(n) : n \in {0, 5, 999, 1000, 123456}}
Currencies == {Undefined, Str(""), Str("eur"), Str("USD")}
Statuses == {"trial", "active", "cancelled"}

WelcomeInputs ==
  [email : {"john@example.com"}, firstName : {"John", ""}, lastName : {"Doe"},
   provider : Providers]

SubscriptionInputs ==
  [email : {"john@example.com"}, firstName : {"John"}, lastName : {"Doe"},
   plan : {"monthly", "yearly"}, status : Statuses,
   trialEnd : {Undefined, DateOf("d20240215")},
   nextBillingDate : {Undefined, DateOf("d20240315")},
   amount : Amounts, currency : Currencies]

\* The compiled pairs TemplateService can hold for a template name: the files
\* under src/templates/<name>/, here the same text as the inline templates or
\* a shorter revision of it.
LoadedTemplates(templateName) ==
  IF templateName = "welcome"
  THEN {[html |-> WelcomeHtml, text |-> WelcomeText],
        [html |-> <<Lit("<p>"), Var("fullName"), Lit("</p>")>>,
         text |-> <<Lit("Bonjour "), Var("fullName")>>]}
  ELSE {[html |-> SubscriptionHtml, text |-> SubscriptionText],
        [html |-> <<Lit("<p>"), Var("plan"), Lit(" "), Var("amount"), Lit("</p>")>>,
         text |-> <<Lit("Plan "), Var("plan"), Lit(" "), Var("amount")>>]}

NoMail == [to |-> "none"]
NoRendered == [subject |-> "none"]

InitRender ==
  /\ configValue = Undefined
  /\ expectedApiKey = GuardConstructor(configValue)
  /\ guardRequest = NoRequest
  /\ guardOutcome = NoOutcome
  /\ emailConfig \in [user : {<<>>, <<"u">>}, pass : {<<>>, <<"p">>}]
  /\ reqs = <<>>
  /\ templateCache = <<>>
  /\ calls = <<>>
  /\ history = <<>>
  /\ renderCall = NoRender

renderUnchanged ==
  UNCHANGED <<configValue, expectedApiKey, guardRequest, guardOutcome, emailConfig, reqs,
              templateCache, calls, history>>

\* TemplateService.getWelcomeEmailTemplate(userData) after its load resolved
GetWelcomeEmailTemplate ==
  /\ renderCall = NoRender
  /\ \E userData \in WelcomeInputs, templates \in LoadedTemplates("welcome") :
       renderCall' = [op |-> "getWelcomeEmailTemplate", input |-> userData,
                      templates |-> templates,
                      templateData |-> WelcomeTemplateData(userData),
                      rendered |-> getWelcomeEmailTemplate(templates, userData),
                      rendererCalls |-> 0, mail |-> NoMail]
  /\ renderUnchanged

\* TemplateService.getSubscriptionConfirmationEmailTemplate(subscriptionData)
GetSubscriptionConfirmationEmailTemplate ==
  /\ renderCall = NoRender
  /\ \E subscriptionData \in SubscriptionInputs, templates \in LoadedTemplates("subscription") :
       renderCall' = [op |-> "getSubscriptionConfirmationEmailTemplate",
                      input |-> subscriptionData, templates |-> templates,
                      templateData |-> SubscriptionTemplateData(subscriptionData),
                      rendered |-> getSubscriptionConfirmationEmailTemplate(templates,
                                                                            subscriptionData),
                      rendererCalls |-> 0, mail |-> NoMail]
  /\ renderUnchanged

\* EmailService.sendWelcomeEmail(userData) up to transporter.sendMail(mailOptions);
\* `templates` is the pair the TemplateService of the same process holds.
BuildWelcomeMessage ==
  /\ renderCall = NoRender
  /\ \E userData \in WelcomeInputs, templates \in LoadedTemplates("welcome") :
       renderCall' = [op |-> "sendWelcomeEmail", input |-> userData,
                      templates |-> templates,
                      templateData |-> IF TestMode(emailConfig) THEN NoMail
                                       ELSE EmailService_WelcomeTemplateData(userData),
                      rendered |-> NoRendered, rendererCalls |-> 0,
                      mail |-> IF TestMode(emailConfig) THEN NoMail
                               ELSE WelcomeMailOptions(userData)]
  /\ renderUnchanged

\* EmailService.sendSubscriptionConfirmationEmail(subscriptionData) up to sendMail
BuildSubscriptionMessage ==
  /\ renderCall = NoRender
  /\ \E subscriptionData \in SubscriptionInputs, templates \in LoadedTemplates("subscription") :
       renderCall' = [op |-> "sendSubscriptionConfirmationEmail",
                      input |-> subscriptionData, templates |-> templates,
                      templateData |->
                        IF TestMode(emailConfig) THEN NoMail
                        ELSE EmailService_SubscriptionTemplateData(subscriptionData),
                      rendered |-> NoRendered, rendererCalls |-> 0,
                      mail |-> IF TestMode(emailConfig) THEN NoMail
                               ELSE SubscriptionMailOptions(subscriptionData)]
  /\ renderUnchanged

NextRender ==
  \/ GetWelcomeEmailTemplate
  \/ GetSubscriptionConfirmationEmailTemplate
  \/ BuildWelcomeMessage
  \/ BuildSubscriptionMessage

RenderSpec == InitRender /\ [][NextRender]_vars

(***************************************************************************)
(* Claims about the render and send operations (RenderSpec)                *)
(***************************************************************************)
SendCalls == {"sendWelcomeEmail", "sendSubscriptionConfirmationEmail"}
SubscriptionCalls ==
  {"getSubscriptionConfirmationEmailTemplate", "sendSubscriptionConfirmationEmail"}
WelcomeCalls == {"getWelcomeEmailTemplate", "sendWelcomeEmail"}

\* The operation recorded in renderCall built a merge record.
Merged == renderCall.op # "none" /\ renderCall.templateData # NoMail

\* The send operation recorded in renderCall built a message for the transport.
MessageBuilt == renderCall.op \in SendCalls /\ renderCall.mail # NoMail

\* What the TemplateService render operation returns for the recorded input.
RendererOutput ==
  IF renderCall.op = "sendWelcomeEmail"
  THEN getWelcomeEmailTemplate(renderCall.templates, renderCall.input)
  ELSE getSubscriptionConfirmationEmailTemplate(renderCall.templates, renderCall.input)

\* C16: with SMTP credentials configured, a send operation calls the matching
\* TemplateService render operation once with the caller's data, and the message
\* it builds has the configured sender, data.email as recipient and exactly the
\* subject, text and html that render operation returned.
C16_MessageFromRenderer ==
  (renderCall.op \in SendCalls /\ ~TestMode(emailConfig)) =>
    /\ renderCall.mail # NoMail
    /\ renderCall.rendererCalls = 1
    /\ renderCall.mail.from = [name |-> FromName, address |-> FromAddress]
    /\ renderCall.mail.to = renderCall.input.email
    /\ renderCall.mail.subject = RendererOutput.subject
    /\ renderCall.mail.text = RendererOutput.text
    /\ renderCall.mail.html = RendererOutput.html

\* The subject the recorded subscription operation chose.
ChosenSubject ==
  IF renderCall.op = "sendSubscriptionConfirmationEmail"
  THEN renderCall.mail.subject ELSE renderCall.rendered.subject

\* C17: the subscription subject is the trial subject exactly when status is
\* "trial" and the confirmation subject otherwise, and isTrialActive is true
\* exactly when the trial subject is chosen, whatever the other fields are.
C17_SubjectByStatus ==
  (renderCall.op \in SubscriptionCalls /\ Merged) =>
    /\ ChosenSubject = TrialSubject <=> renderCall.input.status = "trial"
    /\ ChosenSubject = ConfirmationSubject <=> renderCall.input.status # "trial"
    /\ renderCall.templateData.isTrialActive = Bool(ChosenSubject = TrialSubject)

C17_Witness ==
  /\ renderCall.op = "getSubscriptionConfirmationEmailTemplate"
  /\ renderCall.input.status = "cancelled"
  /\ renderCall.input.plan = "monthly"
  /\ renderCall.input.amount = Num(999)
  /\ renderCall.rendered.subject = ConfirmationSubject
  /\ renderCall.templateData.isTrialActive = Bool(FALSE)

\* C18: whenever the input carries an integer amount, the merge field amount is
\* that amount divided by 100 with exactly two decimals; when the amount is
\* absent the field is null.
C18_AmountFormatted ==
  (renderCall.op \in SubscriptionCalls /\ Merged) =>
    /\ renderCall.input.amount.kind = "number" =>
         renderCall.templateData.amount = Str(amountToFixed(renderCall.input.amount.val))
    /\ renderCall.input.amount.kind = "undefined" => renderCall.templateData.amount = Null

\* C19: google, facebook, apple and github map to Google, Facebook, Apple and
\* GitHub, and every other provider string reaches the merge record unchanged.
C19_ProviderMapping ==
  (renderCall.op \in WelcomeCalls /\ Merged) =>
    LET provider == renderCall.input.provider
    IN  /\ provider = "google" => renderCall.templateData.provider = Str("Google")
        /\ provider = "facebook" => renderCall.templateData.provider = Str("Facebook")
        /\ provider = "apple" => renderCall.templateData.provider = Str("Apple")
        /\ provider = "github" => renderCall.templateData.provider = Str("GitHub")
        /\ provider \notin {"google", "facebook", "apple", "github"} =>
             renderCall.templateData.provider = Str(provider)

\* C20: every message a send operation builds for the transport has a non-empty
\* subject, a non-empty html body and a non-empty text body.
C20_MessageNonEmpty ==
  MessageBuilt =>
    /\ renderCall.mail.subject # ""
    /\ renderCall.mail.html # ""
    /\ renderCall.mail.text # ""

C20_Witness ==
  /\ MessageBuilt
  /\ renderCall.op = "sendWelcomeEmail"
  /\ renderCall.input.firstName = ""
  /\ renderCall.input.provider = ""
  /\ Len(renderCall.mail.text) > 0

(***************************************************************************)
(* TemplateService cache.  templateCache is the Map in insertion order;    *)
(* calls[c] is the render call running in slot c, of MaxCalls concurrent   *)
(* ones, and its position inside loadTemplates.                            *)
(***************************************************************************)
MaxCalls == 2

CallIds == 1..MaxCalls
TemplateNames == {"welcome", "subscription"}

\* Map.prototype.has
MapHas(m, k) == \E i \in 1..Len(m) : m[i].key = k

\* Variant of Map.prototype.get that returns the oldest entry whatever the key.
MapGet_oldest(m, k) == m[1].value

\* Map.prototype.get on a key the map has
MapGet(m, k) == m[CHOOSE i \in 1..Len(m) : m[i].key = k].value

\* Variant of Map.prototype.set that always adds a new entry.
MapSet_alwaysAppends(m, k, v) == Append(m, [key |-> k, value |-> v])

\* Variant of Map.prototype.set that leaves the value of an existing key alone.
MapSet_keepsExisting(m, k, v) ==
  IF MapHas(m, k) THEN m ELSE Append(m, [key |-> k, value |-> v])

\* Map.prototype.set: replaces the value of an existing key, else appends
MapSet(m, k, v) ==
  IF MapHas(m, k)
  THEN [i \in 1..Len(m) |-> IF m[i].key = k THEN [key |-> k, value |-> v] ELSE m[i]]
  ELSE Append(m, [key |-> k, value |-> v])

\* Variant of Map.prototype.clear that leaves the oldest entry in place.
MapClear_keepsOldest(m) == IF Len(m) = 0 THEN m ELSE <<Head(m)>>

\* Map.prototype.clear
MapClear(m) == <<>>

\* getCacheStatus(): { size: templateCache.size, keys: Array.from(templateCache.keys()) }
getCacheStatus(m) == [size |-> Len(m), keys |-> [i \in 1..Len(m) |-> m[i].key]]

\* A compiled pair: the two sources it was compiled from and the call that
\* compiled it (two compilations give two distinct objects).
NoPair == [html |-> "none", text |-> "none", by |-> 0]

\* path.join(templateDir, `${templateName}.html.hbs`) and its text twin
htmlPath(templateName) == templateName \o ".html.hbs"
textPath(templateName) == templateName \o ".text.hbs"

\* The text of a template file.
FileContent(file) == <<Lit("<" \o file \o "> "), Var("fullName")>>

\* handlebars.compile on the two sources a pair was built from
Compiled(templateName, pair) ==
  [html |-> FileContent(pair.html), text |-> FileContent(pair.text)]

SampleWelcomeData ==
  [email |-> "john@example.com", firstName |-> "John", lastName |-> "Doe",
   provider |-> "google"]
SampleSubscriptionData ==
  [email |-> "john@example.com", firstName |-> "John", lastName |-> "Doe",
   plan |-> "monthly", status |-> "active", trialEnd |-> Undefined,
   nextBillingDate |-> Undefined, amount |-> Num(999), currency |-> Str("eur")]

\* The data a call of TemplateSpec passes to the render operation of a name.
SampleData(templateName) ==
  IF templateName = "welcome" THEN SampleWelcomeData ELSE SampleSubscriptionData

NoData == [email |-> "none"]

\* Variant of RenderWith that merges the sample data whatever the caller passed.
RenderWith_sampleOnly(templateName, pair, data) ==
  IF templateName = "welcome"
  THEN getWelcomeEmailTemplate(Compiled(templateName, pair), SampleWelcomeData)
  ELSE getSubscriptionConfirmationEmailTemplate(Compiled(templateName, pair),
                                                SampleSubscriptionData)

\* The render operation for a template name called with data, once loadTemplates
\* returned pair.
RenderWith(templateName, pair, data) ==
  IF templateName = "welcome"
  THEN getWelcomeEmailTemplate(Compiled(templateName, pair), data)
  ELSE getSubscriptionConfirmationEmailTemplate(Compiled(templateName, pair), data)

\* throw new Error(`Template loading failed: ${templateName}`)
LoadError(templateName) == "Template loading failed: " \o templateName

IdleCall ==
  [pc |-> "idle", name |-> "none", data |-> NoData, hit |-> FALSE, reads |-> 0,
   html |-> "none",
   pair |-> NoPair, error |-> "none", result |-> NoRendered, afterClear |-> FALSE,
   sawClear |-> FALSE]

\* A render operation called with data, running loadTemplates up to its first
\* await: the cache check, and on a miss the readFile of the html source.  On a
\* hit the render operation completes.
loadTemplates(m, q, templateName, data) ==
  IF MapHas(m, templateName)
  THEN [q EXCEPT !.pc = "done", !.name = templateName, !.data = data, !.hit = TRUE,
                 !.pair = MapGet(m, templateName),
                 !.result = RenderWith(templateName, MapGet(m, templateName), data)]
  ELSE [q EXCEPT !.pc = "readHtml", !.name = templateName, !.data = data, !.reads = 1]

\* catch (error) { ...; throw new Error(`Template loading failed: ...`) }
loadTemplatesCatch(q) == [q EXCEPT !.pc = "failed", !.error = LoadError(q.name)]

\* The html readFile settles; on success the text readFile is issued.
readHtmlSettled(q, outcome) ==
  IF outcome = "ok"
  THEN [q EXCEPT !.pc = "readText", !.html = htmlPath(q.name), !.reads = 2]
  ELSE loadTemplatesCatch(q)

\* Variant of readTextSettled that caches the html half when the load fails.
readTextSettled_cachesOnFailure(m, q, c, outcome) ==
  LET pair == [html |-> q.html, text |-> IF outcome = "ok" THEN textPath(q.name) ELSE "none",
               by |-> c]
  IN  [cache |-> MapSet(m, q.name, pair),
       call |-> IF outcome = "ok"
                THEN [q EXCEPT !.pc = "done", !.pair = pair,
                               !.result = RenderWith(q.name, pair, q.data)]
                ELSE loadTemplatesCatch(q)]

\* Variant of readTextSettled in which a load that was suspended while clearCache
\* ran returns its pair without storing it.
readTextSettled_dropsAfterClear(m, q, c, outcome) ==
  IF outcome = "ok"
  THEN LET pair == [html |-> q.html, text |-> textPath(q.name), by |-> c]
       IN  [cache |-> IF q.sawClear THEN m ELSE MapSet(m, q.name, pair),
            call |-> [q EXCEPT !.pc = "done", !.pair = pair,
                               !.result = RenderWith(q.name, pair, q.data)]]
  ELSE [cache |-> m, call |-> loadTemplatesCatch(q)]

\* The text readFile settles; on success both sources are compiled, the pair is
\* stored under the name and the render operation completes with it.
readTextSettled(m, q, c, outcome) ==
  IF outcome = "ok"
  THEN LET pair == [html |-> q.html, text |-> textPath(q.name), by |-> c]
       IN  [cache |-> MapSet(m, q.name, pair),
            call |-> [q EXCEPT !.pc = "done", !.pair = pair,
                               !.result = RenderWith(q.name, pair, q.data)]]
  ELSE [cache |-> m, call |-> loadTemplatesCatch(q)]

ReadOutcomes == {"ok", "readFails"}
CompileOutcomes == {"ok", "readFails", "compileThrows"}

\* Calls of a name that are suspended inside loadTemplates.
InFlight(templateName) ==
  {d \in CallIds : calls[d].name = templateName /\ calls[d].pc \in {"readHtml", "readText"}}

\* history.first[name] and history.last[name] are the pairs stored by the first
\* and by the latest successful load of the name since the cache was last
\* cleared; history.pending[name] are the calls that were suspended inside
\* loadTemplates(name) when the latest pair was stored; history.cleared says
\* clearCache ran and nothing was stored since.  calls[c].afterClear says the
\* call started in such a state, calls[c].sawClear that clearCache ran while the
\* call was suspended inside loadTemplates.

NoHistory ==
  [first |-> [n \in TemplateNames |-> NoPair], last |-> [n \in TemplateNames |-> NoPair],
   pending |-> [n \in TemplateNames |-> {}], cleared |-> FALSE]

InitTemplate ==
  /\ configValue = Undefined
  /\ expectedApiKey = GuardConstructor(configValue)
  /\ guardRequest = NoRequest
  /\ guardOutcome = NoOutcome
  /\ emailConfig = NoCredentials
  /\ reqs = <<>>
  /\ renderCall = NoRender
  /\ templateCache = <<>>
  /\ calls = [c \in CallIds |-> IdleCall]
  /\ history = NoHistory

restUnchanged ==
  UNCHANGED <<configValue, expectedApiKey, guardRequest, guardOutcome, emailConfig, reqs,
              renderCall>>

\* A render operation is called and runs loadTemplates up to its first await.
StartRender(c) ==
  /\ calls[c].pc = "idle"
  /\ \E templateName \in TemplateNames :
       calls' = [calls EXCEPT ![c] =
                   [loadTemplates(templateCache, @, templateName, SampleData(templateName))
                      EXCEPT !.afterClear = history.cleared]]
  /\ UNCHANGED <<templateCache, history>>
  /\ restUnchanged

ReadHtmlSettles(c) ==
  /\ calls[c].pc = "readHtml"
  /\ \E outcome \in ReadOutcomes :
       calls' = [calls EXCEPT ![c] = readHtmlSettled(@, outcome)]
  /\ UNCHANGED <<templateCache, history>>
  /\ restUnchanged

ReadTextSettles(c) ==
  /\ calls[c].pc = "readText"
  /\ \E outcome \in CompileOutcomes :
       LET q == calls[c]
           after == readTextSettled(templateCache, q, c, outcome)
       IN  /\ templateCache' = after.cache
           /\ calls' = [calls EXCEPT ![c] = after.call]
           /\ history' =
                IF after.call.pc = "done"
                THEN [history EXCEPT
                        !.first[q.name] = IF @ = NoPair THEN after.call.pair ELSE @,
                        !.last[q.name] = after.call.pair,
                        !.pending[q.name] = InFlight(q.name) \ {c},
                        !.cleared = FALSE]
                ELSE history
  /\ restUnchanged

\* The caller has taken the result, or the rejection, of its render call.
Return(c) ==
  /\ calls[c].pc \in {"done", "failed"}
  /\ calls' = [calls EXCEPT ![c] = IdleCall]
  /\ UNCHANGED <<templateCache, history>>
  /\ restUnchanged

\* clearCache()
ClearCache ==
  /\ templateCache' = MapClear(templateCache)
  /\ history' = [history EXCEPT !.first = NoHistory.first, !.last = NoHistory.last,
                                !.pending = NoHistory.pending, !.cleared = TRUE]
  /\ calls' = [c \in CallIds |->
                IF calls[c].pc \in {"readHtml", "readText"}
                THEN [calls[c] EXCEPT !.sawClear = TRUE] ELSE calls[c]]
  /\ restUnchanged

NextTemplate ==
  \/ \E c \in CallIds : StartRender(c)
  \/ \E c \in CallIds : ReadHtmlSettles(c)
  \/ \E c \in CallIds : ReadTextSettles(c)
  \/ \E c \in CallIds : Return(c)
  \/ ClearCache

TemplateSpec == InitTemplate /\ [][NextTemplate]_vars

(***************************************************************************)
(* Claims about the template cache (TemplateSpec)                          *)
(***************************************************************************)
\* The step in which a render call starts in slot c.
Starts(c) == calls[c].pc = "idle" /\ calls'[c].pc # "idle"

\* The step in which the load of slot c stores its pair and completes.
Stores(c) == calls[c].pc = "readText" /\ calls'[c].pc = "done"

\* The step in which the load of slot c fails.
Fails(c) == calls[c].pc \in {"readHtml", "readText"} /\ calls'[c].pc = "failed"

KeysDistinct(m) == \A i, j \in 1..Len(m) : m[i].key = m[j].key => i = j

\* C12 as stated: once a load of a name has completed successfully, every later
\* call for that name that starts before any clearCache() performs no read and
\* returns the same compiled pair, the one that first load cached.
C12_LaterCallsSamePair ==
  [][\A c \in CallIds :
       (Starts(c) /\ history.first[calls'[c].name] # NoPair) =>
         /\ calls'[c].hit
         /\ calls'[c].reads = 0
         /\ calls'[c].pair = history.first[calls'[c].name]]_vars

\* C12 amended: once a load of a name has completed successfully, every later
\* call for that name that starts before any clearCache() performs no read and
\* returns the pair stored by the latest successful load of that name to
\* complete, leaving the cache as it is.
C12_HitReturnsLatestPair ==
  [][\A c \in CallIds :
       (Starts(c) /\ history.first[calls'[c].name] # NoPair) =>
         /\ calls'[c].hit
         /\ calls'[c].reads = 0
         /\ calls'[c].pc = "done"
         /\ calls'[c].pair = history.last[calls'[c].name]
         /\ calls'[c].result =
              RenderWith(calls'[c].name, history.last[calls'[c].name], calls'[c].data)
         /\ templateCache' = templateCache]_vars

C12_Witness ==
  \E c \in CallIds :
    /\ calls[c].pc = "done"
    /\ calls[c].hit
    /\ calls[c].reads = 0
    /\ calls[c].pair = history.last[calls[c].name]
    /\ calls[c].pair # history.first[calls[c].name]
    /\ Len(templateCache) = 2

C15_EntryNeverReplaced ==
  /\ [](KeysDistinct(templateCache))
  /\ [][\A n \in TemplateNames :
          (MapHas(templateCache, n) /\ MapHas(templateCache', n)) =>
            MapGet(templateCache', n) = MapGet(templateCache, n)]_vars

\* C15 amended: a name maps to at most one cache entry; the entry of a name
\* changes only when a load of that name stores its pair, and a load that
\* stores over an existing entry is one that had missed the cache and was
\* suspended reading the sources when that entry was stored.
C15_ReplacedOnlyByConcurrentLoad ==
  /\ [](KeysDistinct(templateCache))
  /\ [][\A n \in TemplateNames :
          (MapHas(templateCache, n) /\ MapHas(templateCache', n)
             /\ MapGet(templateCache', n) # MapGet(templateCache, n)) =>
            \E c \in CallIds :
              /\ Stores(c)
              /\ calls[c].name = n
              /\ ~calls[c].hit
              /\ c \in history.pending[n]]_vars
  /\ [][\A c \in CallIds :
          (Starts(c) /\ MapHas(templateCache, calls'[c].name)) =>
            /\ calls'[c].pc = "done"
            /\ templateCache' = templateCache]_vars

C15_Witness ==
  \E n \in TemplateNames :
    /\ history.first[n] # NoPair
    /\ MapHas(templateCache, n)
    /\ MapGet(templateCache, n) # history.first[n]
    /\ KeysDistinct(templateCache)
    /\ \A c \in CallIds : calls[c].pc = "idle"

(***************************************************************************)
(* Claims about the guard's rejection log (GuardSpec)                      *)
(***************************************************************************)
\* The guard found no candidate key, or no secret is configured.
CredentialsMissing == ~Truthy(extractApiKey(guardRequest)) \/ expectedApiKey = <<>>

\* C21 as stated: every rejection, for missing credentials as well as for
\* invalid ones, is logged at warn level with the client IP of the request.
C21_RejectionLogsIp ==
  GuardRejected =>
    /\ guardOutcome.log.level = "warn"
    /\ guardOutcome.log.ip = guardRequest.ip

\* C21 amended: every rejection is logged at warn level; the warning for an
\* invalid key carries the client IP of the request, the warning for a missing
\* key or an unconfigured secret is the fixed text "API key missing or not
\* configured" and carries no IP.
C21_RejectionLogged ==
  GuardRejected =>
    /\ guardOutcome.log.level = "warn"
    /\ CredentialsMissing =>
         /\ guardOutcome.log.text = "API key missing or not configured"
         /\ guardOutcome.log.ip = "none"
    /\ ~CredentialsMissing =>
         /\ guardOutcome.log.text = "Invalid API key attempt from IP"
         /\ guardOutcome.log.ip = guardRequest.ip

C21_Witness ==
  /\ GuardRejected
  /\ expectedApiKey = <<"K">>
  /\ guardRequest.headers.authorization = Undefined
  /\ guardRequest.headers.xApiKey = Undefined
  /\ guardRequest.ip = "10.0.0.2"
  /\ guardOutcome.log = [level |-> "warn", text |-> "API key missing or not configured",
                         ip |-> "none"]

(***************************************************************************)
(* Claims about the merge records (RenderSpec)                             *)
(***************************************************************************)
WelcomeFields == {"firstName", "lastName", "fullName", "provider", "email", "baseUrl", "year"}

\* C22: on every path that renders a welcome email the merge record has the
\* fields firstName, lastName, fullName, provider, email, baseUrl and year, with
\* fullName = firstName + " " + lastName and email the recipient address.
C22_WelcomeMergeRecord ==
  (renderCall.op \in WelcomeCalls /\ Merged) =>
    /\ DOMAIN renderCall.templateData = WelcomeFields
    /\ renderCall.templateData.firstName = Str(renderCall.input.firstName)
    /\ renderCall.templateData.lastName = Str(renderCall.input.lastName)
    /\ renderCall.templateData.fullName =
         Str(renderCall.input.firstName \o " " \o renderCall.input.lastName)
    /\ Len(renderCall.templateData.fullName.val) =
         Len(renderCall.input.firstName) + 1 + Len(renderCall.input.lastName)
    /\ renderCall.templateData.email = Str(renderCall.input.email)
    /\ renderCall.templateData.baseUrl = Str(BaseUrl)
    /\ renderCall.templateData.year = Num(CurrentYear)

\* C23 as stated: the merge field currency is the supplied currency upper-cased
\* whenever a currency is supplied, and "EUR" exactly when it is absent.
C23_CurrencyUpperCased ==
  (renderCall.op \in SubscriptionCalls /\ Merged) =>
    LET currency == renderCall.input.currency
    IN  /\ currency = Str("eur") => renderCall.templateData.currency = Str("EUR")
        /\ currency = Str("USD") => renderCall.templateData.currency = Str("USD")
        /\ currency = Str("") => renderCall.templateData.currency = Str("")
        /\ renderCall.templateData.currency = Str("EUR") =>
             (currency = Undefined \/ currency = Str("eur"))

\* C23 amended: the merge field currency is the supplied currency upper-cased
\* whenever a non-empty currency is supplied, and "EUR" when the currency is
\* absent or the empty string.
C23_CurrencyDefault ==
  (renderCall.op \in SubscriptionCalls /\ Merged) =>
    LET currency == renderCall.input.currency
    IN  /\ currency = Str("eur") => renderCall.templateData.currency = Str("EUR")
        /\ currency = Str("USD") => renderCall.templateData.currency = Str("USD")
        /\ currency = Str("") => renderCall.templateData.currency = Str("EUR")
        /\ currency = Undefined => renderCall.templateData.currency = Str("EUR")

C23_Witness ==
  /\ renderCall.op = "sendSubscriptionConfirmationEmail"
  /\ Merged
  /\ renderCall.input.currency = Str("")
  /\ renderCall.input.amount = Num(999)
  /\ renderCall.templateData.currency = Str("EUR")

(***************************************************************************)
(* DataSpec: MaxCalls calls of the TemplateService's render operations,    *)
(* each with data of its own, interleaved at the file reads of             *)
(* loadTemplates.                                                          *)
(***************************************************************************)
OtherWelcomeData ==
  [email |-> "jane@example.com", firstName |-> "Jane", lastName |-> "Roe",
   provider |-> "github"]
OtherSubscriptionData ==
  [email |-> "jane@example.com", firstName |-> "Jane", lastName |-> "Roe",
   plan |-> "yearly", status |-> "trial", trialEnd |-> DateOf("d20240215"),
   nextBillingDate |-> Undefined, amount |-> Undefined, currency |-> Undefined]

\* The data a caller may pass to the render operation of a template name.
CallerData(templateName) ==
  IF templateName = "welcome" THEN {SampleWelcomeData, OtherWelcomeData}
  ELSE {SampleSubscriptionData, OtherSubscriptionData}

\* getWelcomeEmailTemplate(userData) or
\* getSubscriptionConfirmationEmailTemplate(subscriptionData) is called and runs
\* loadTemplates up to its first await.
StartRenderWithData(c) ==
  /\ calls[c].pc = "idle"
  /\ \E templateName \in TemplateNames :
       \E data \in CallerData(templateName) :
         calls' = [calls EXCEPT ![c] = loadTemplates(templateCache, @, templateName, data)]
  /\ UNCHANGED <<templateCache, history>>
  /\ restUnchanged

NextData ==
  \/ \E c \in CallIds : StartRenderWithData(c)
  \/ \E c \in CallIds : ReadHtmlSettles(c)
  \/ \E c \in CallIds : ReadTextSettles(c)

DataSpec == InitTemplate /\ [][NextData]_vars

(***************************************************************************)
(* Claims about rendered output and caller data (DataSpec)                 *)
(***************************************************************************)
\* The RenderedEmail the render operation of a name owes to a caller's data.
ExpectedEmail(templateName, data) ==
  [html |-> "<" \o templateName \o ".html.hbs> " \o data.firstName \o " " \o data.lastName,
   text |-> "<" \o templateName \o ".text.hbs> " \o data.firstName \o " " \o data.lastName,
   subject |-> IF templateName = "welcome" THEN WelcomeSubject
               ELSE IF data.status = "trial" THEN TrialSubject ELSE ConfirmationSubject]

\* C24: every RenderedEmail a call returns is built from that call's own data
\* and the compiled pair it obtained, also when another call with different
\* data obtained the same cached pair; and the cache holds only compiled pairs
\* keyed by template name, never rendered output or caller data.
C24_OutputFromOwnData ==
  /\ \A c \in CallIds :
       calls[c].pc = "done" => calls[c].result = ExpectedEmail(calls[c].name, calls[c].data)
  /\ \A i \in 1..Len(templateCache) :
       /\ templateCache[i].key \in TemplateNames
       /\ DOMAIN templateCache[i] = {"key", "value"}
       /\ DOMAIN templateCache[i].value = {"html", "text", "by"}
       /\ templateCache[i].value.html = htmlPath(templateCache[i].key)
       /\ templateCache[i].value.text = textPath(templateCache[i].key)
       /\ templateCache[i].value.by \in CallIds

C24_Witness ==
  \E c, d \in CallIds :
    /\ calls[c].pc = "done" /\ calls[d].pc = "done"
    /\ calls[c].name = calls[d].name
    /\ calls[d].hit
    /\ calls[c].pair = calls[d].pair
    /\ calls[c].data # calls[d].data
    /\ calls[c].result.html # calls[d].result.html
    /\ MapGet(templateCache, calls[c].name) = calls[c].pair

(***************************************************************************)
(* HungSpec: the requests of Spec where every step that is enabled is      *)
(* eventually taken, except that the transport need never settle the       *)
(* sendMail call of request HungRequest.                                   *)
(***************************************************************************)
HungRequest == 1

HungSpec ==
  /\ Init
  /\ [][Next]_vars
  /\ \A r \in ReqIds :
       /\ WF_vars(Guard(r))
       /\ WF_vars(ValidationPipe(r))
       /\ WF_vars(SendWelcomeEmail(r))
       /\ WF_vars(SendSubscriptionConfirmationEmail(r))
       /\ WF_vars(HealthCheck(r))
       /\ WF_vars(VerifySettles(r))
       /\ WF_vars(Respond(r))
  /\ \A r \in ReqIds \ {HungRequest} :
       /\ WF_vars(WelcomeSendMailSettles(r))
       /\ WF_vars(SubscriptionSendMailSettles(r))

\* C25: a request waiting for sendMail leaves that state only when the
\* transport settles the call (nothing times it out or cancels it), and every
\* other request is eventually answered whether or not that call ever settles.
C25_HungSendBlocksOnlyItself ==
  /\ [][\A r \in ReqIds :
          (reqs[r].pc = "awaitSendMail" /\ reqs'[r] # reqs[r]) =>
            /\ reqs[r].transport = "none"
            /\ reqs'[r].transport \in TransportOutcomes
            /\ reqs'[r].pc = "svcReturned"]_vars
  /\ \A r \in ReqIds \ {HungRequest} : <>(reqs[r].pc = "responded")

C25_Witness ==
  /\ reqs[HungRequest].pc = "awaitSendMail"
  /\ reqs[HungRequest].sendMailCalls = 1
  /\ reqs[HungRequest].status = 0
  /\ \E r \in ReqIds \ {HungRequest} :
       /\ reqs[r].pc = "responded"
       /\ reqs[r].route = "health"
       /\ reqs[r].status = 200

(***************************************************************************)
(* Claims about overlapping loads and clearCache (TemplateSpec)            *)
(***************************************************************************)
Suspended(c) == calls[c].pc \in {"readHtml", "readText"}

\* C26: calls that all missed the cache for a name each read both sources and
\* compile a pair of their own, each returns a usable RenderedEmail from it, and
\* each stores its pair over whatever is cached, so that the cache always holds
\* exactly one entry for the name: the pair of the load that finished last.
C26_LastLoadWins ==
  /\ [](/\ KeysDistinct(templateCache)
        /\ \A n \in TemplateNames :
             MapHas(templateCache, n) => MapGet(templateCache, n) = history.last[n]
        /\ \A c \in CallIds : Suspended(c) => ~calls[c].hit /\ calls[c].pair = NoPair)
  /\ [][\A c \in CallIds :
          Stores(c) =>
            /\ calls'[c].reads = 2
            /\ calls'[c].pair =
                 [html |-> htmlPath(calls[c].name), text |-> textPath(calls[c].name), by |-> c]
            /\ calls'[c].result = ExpectedEmail(calls[c].name, calls[c].data)
            /\ MapGet(templateCache', calls[c].name) = calls'[c].pair
            /\ Len(templateCache') =
                 Len(templateCache) + (IF MapHas(templateCache, calls[c].name) THEN 0 ELSE 1)]_vars

C26_Witness ==
  \E c, d \in CallIds :
    /\ c # d
    /\ calls[c].pc = "done" /\ calls[d].pc = "done"
    /\ calls[c].name = "welcome" /\ calls[d].name = "welcome"
    /\ ~calls[c].hit /\ ~calls[d].hit
    /\ calls[c].reads = 2 /\ calls[d].reads = 2
    /\ ~calls[c].sawClear /\ ~calls[d].sawClear
    /\ history.first["welcome"] = calls[c].pair
    /\ getCacheStatus(templateCache) = [size |-> 1, keys |-> <<"welcome">>]
    /\ MapGet(templateCache, "welcome") = calls[d].pair
    /\ calls[d].pair # calls[c].pair

\* C27: clearCache() does not cancel a load that is suspended reading its
\* sources; when such a load resumes and succeeds it stores its pair, so the
\* cache holds an entry again although no call started after the clear.
C27_SuspendedLoadStoresAfterClear ==
  /\ [][ClearCache =>
          \A c \in CallIds :
            Suspended(c) =>
              /\ calls'[c].pc = calls[c].pc
              /\ calls'[c].reads = calls[c].reads]_vars
  /\ [][\A c \in CallIds :
          (Stores(c) /\ calls[c].sawClear) =>
            /\ MapHas(templateCache', calls[c].name)
            /\ MapGet(templateCache', calls[c].name) = calls'[c].pair
            /\ calls'[c].pair.by = c]_vars

C27_Witness ==
  \E c \in CallIds :
    /\ calls[c].pc = "done"
    /\ calls[c].sawClear
    /\ ~calls[c].afterClear
    /\ ~calls[c].hit
    /\ \A d \in CallIds \ {c} : calls[d].pc = "idle"
    /\ getCacheStatus(templateCache) = [size |-> 1, keys |-> <<calls[c].name>>]
    /\ MapGet(templateCache, calls[c].name) = calls[c].pair
    /\ ~history.cleared

(***************************************************************************)
(* Claims about test mode and the health probe (Spec)                      *)
(***************************************************************************)
HalfConfigured == (emailConfig.user = <<>>) # (emailConfig.pass = <<>>)

\* C28: test mode is entered when either SMTP credential is empty: with only a
\* user or only a password configured both send operations log the would-be
\* email and return true without calling sendMail; with both configured they
\* do not take the test-mode branch.
C28_EitherEmptyIsTestMode ==
  \A r \in ReqIds :
    LET q == reqs[r]
    IN  q.op \in SendOps =>
          /\ HalfConfigured =>
               /\ q.testLogged
               /\ q.svc = "true"
               /\ q.sendMailCalls = 0
               /\ q.transport = "none"
          /\ (emailConfig.user # <<>> /\ emailConfig.pass # <<>>) => ~q.testLogged

C28_Witness ==
  /\ emailConfig = [user |-> <<"u">>, pass |-> <<>>]
  /\ \E r1, r2 \in ReqIds :
       /\ reqs[r1].op = "sendWelcomeEmail" /\ reqs[r1].pc = "responded"
       /\ reqs[r1].body.success /\ reqs[r1].sendMailCalls = 0
       /\ reqs[r2].op = "sendSubscriptionConfirmationEmail" /\ reqs[r2].pc = "responded"
       /\ reqs[r2].body.success /\ reqs[r2].sendMailCalls = 0

\* C29: in test mode a send operation returns true before any template is
\* compiled or applied and before a subject is chosen, so it returns true also
\* when rendering would have thrown, and the call leaves the template cache as
\* it was.
C29_TestModeBeforeRendering ==
  /\ [](\A r \in ReqIds :
          (reqs[r].op \in SendOps /\ TestMode(emailConfig)) =>
            /\ reqs[r].rendered = "none"
            /\ reqs[r].svc = "true"
            /\ reqs[r].pc \in {"svcReturned", "responded"})
  /\ [][\A r \in ReqIds :
          (reqs[r].pc = "handler" /\ reqs'[r].op \in SendOps) =>
            templateCache' = templateCache]_vars

C29_Witness ==
  /\ TestMode(emailConfig)
  /\ \E r \in ReqIds :
       /\ reqs[r].op = "sendSubscriptionConfirmationEmail"
       /\ reqs[r].pc = "svcReturned"
       /\ reqs[r].svc = "true"
       /\ reqs[r].rendered = "none"
       /\ reqs[r].testLogged
       /\ templateCache = <<>>

\* C30: the health check probes the transport whatever the credentials are, so
\* in test mode, where every send answers success true, the health endpoint
\* still answers degraded / disconnected when the probe fails.
C30_HealthProbesInTestMode ==
  \A r \in ReqIds :
    LET q == reqs[r]
    IN  /\ (q.route = "health" /\ q.pc \in {"awaitVerify", "svcReturned", "responded"}
              /\ q.guard = "allow") =>
             /\ q.op = "verifyConnection"
             /\ q.verifyCalls = 1
             /\ ~q.testLogged
             /\ q.pc # "awaitVerify" => q.transport \in TransportOutcomes
             /\ (q.pc = "responded" /\ q.transport = "reject") =>
                  q.body.status = "degraded" /\ q.body.email_service = "disconnected"
        /\ (TestMode(emailConfig) /\ q.op \in SendOps /\ q.pc = "responded") =>
             q.body.success

C30_Witness ==
  /\ TestMode(emailConfig)
  /\ \E r1, r2 \in ReqIds :
       /\ reqs[r1].op \in SendOps /\ reqs[r1].pc = "responded" /\ reqs[r1].body.success
       /\ reqs[r2].op = "verifyConnection" /\ reqs[r2].pc = "responded"
       /\ reqs[r2].verifyCalls = 1
       /\ reqs[r2].body.status = "degraded"
       /\ reqs[r2].body.email_service = "disconnected"

====
